---- MODULE Spec2Model ----
(***************************************************************************)
(* InsightIQ: the chunking summarizer (summarizer.py), the structured quiz *)
(* generator (quizgenerator.py), their two retrying API invokers, and the  *)
(* routes of the web application (app.py) that share the summary file.     *)
(*                                                                         *)
(* Python strings are sequences of one-character strings; Python offsets   *)
(* are 0-based, so text[k] of the source is text[k + 1] here.              *)
(***************************************************************************)
EXTENDS Integers, Sequences, FiniteSets, TLC

(* ------------------------------ bounds --------------------------------- *)
\* longest input text
MaxTextLen == 5
\* largest max_chunk_size handed to chunk_text directly
MaxChunk == 4
\* iterations of the chunk_text loop that are followed. The loop is
\* deterministic in start, and a run that returns moves start forward on every
\* iteration, so it returns within len(text) <= MaxTextLen < MaxIter
\* iterations; a run still looping after MaxIter iterations has come back to
\* a start it had before and never returns
MaxIter == 8
\* most questions in an upstream quiz payload
MaxQuestions == 2
\* uploads that are followed: every upload creates a text file under a name
\* of its own (a uuid), numbered here in the order of creation
MaxUploads == 3

(* ------------------------- program constants --------------------------- *)
\* summarizer.py:11 sets 15000 and summarizer.py:12 sets 1000; both are
\* scaled down so that texts of at most MaxTextLen characters need chunking.
\* The scaled pair keeps 2 * CHUNK_OVERLAP <= CHUNK_SIZE, as the source's does.
CHUNK_SIZE == 3
CHUNK_OVERLAP == 1
\* a retry budget that is one too large
MaxRetriesOneMore == 3 + 1
\* summarizer.py:34
max_retries == 3
\* quizgenerator.py:38
max_retries_structured == 3

(* ----------------------------- alphabets ------------------------------- *)
Chars == {"a", ".", " ", "\n"}
Whitespace == {" ", "\n"}
\* the texts generate_summary is run on: with CHUNK_SIZE and CHUNK_OVERLAP as
\* scaled, no break point lies late enough in a chunk to move its end, so a
\* '.' in these texts would behave as any other solid character
SummaryChars == {"a", " "}

RECURSIVE StringsUpTo(_, _)
StringsUpTo(alphabet, n) ==
    IF n = 0 THEN {<<>>}
    ELSE LET shorter == StringsUpTo(alphabet, n - 1)
         IN  shorter \cup {Append(s, c) : s \in {t \in shorter : Len(t) = n - 1}, c \in alphabet}

Texts == StringsUpTo(Chars, MaxTextLen)
SummaryTexts == StringsUpTo(SummaryChars, MaxTextLen)

(* ------------------------ Python string built-ins ---------------------- *)
Min(a, b) == IF a < b THEN a ELSE b
Max(a, b) == IF a > b THEN a ELSE b

\* how Python turns a slice bound into an offset of a string of length n:
\* a negative bound counts from the end, and everything is clamped to 0..n
SliceIndex(k, n) == IF k < 0 THEN Max(k + n, 0) ELSE Min(k, n)

\* s[lo:hi]
Slice(s, lo, hi) ==
    LET a == SliceIndex(lo, Len(s))
        b == SliceIndex(hi, Len(s))
    IN  IF a >= b THEN <<>> ELSE SubSeq(s, a + 1, b)

\* s.rfind(c, lo, hi) for a one-character c: the highest offset in s[lo:hi]
\* holding c, or -1
rfind(s, c, lo, hi) ==
    LET a == SliceIndex(lo, Len(s))
        b == SliceIndex(hi, Len(s))
        hits == {k \in a..(b - 1) : s[k + 1] = c}
    IN  IF hits = {} THEN -1 ELSE CHOOSE k \in hits : \A j \in hits : j <= k

\* a strip that trims the front only
lstrip(s) ==
    LET solid == {k \in 1..Len(s) : s[k] \notin Whitespace}
    IN  IF solid = {} THEN <<>>
        ELSE SubSeq(s, CHOOSE k \in solid : \A j \in solid : k <= j, Len(s))

\* s.strip()
strip(s) ==
    LET solid == {k \in 1..Len(s) : s[k] \notin Whitespace}
    IN  IF solid = {} THEN <<>>
        ELSE SubSeq(s, CHOOSE k \in solid : \A j \in solid : k <= j,
                       CHOOSE k \in solid : \A j \in solid : j <= k)

\* a join that forgets the separator
RECURSIVE JoinNoSeparator(_, _)
JoinNoSeparator(sep, parts) ==
    IF Len(parts) = 0 THEN <<>> ELSE parts[1] \o JoinNoSeparator(sep, Tail(parts))

\* sep.join(parts)
RECURSIVE join(_, _)
join(sep, parts) ==
    IF Len(parts) = 0 THEN <<>>
    ELSE IF Len(parts) = 1 THEN parts[1]
    ELSE parts[1] \o sep \o join(sep, Tail(parts))

RECURSIVE Pow2(_)
Pow2(n) == IF n = 0 THEN 1 ELSE 2 * Pow2(n - 1)

VARIABLES
    \* chunk_text
    text, max_chunk_size, overlap, start, chunks, spans, cpc,
    \* the API invoker that is running
    invoker, user_query, attempt, response, events, ipc, iresult,
    \* generate_summary
    spc, text_to_summarize, api_key, segment_summaries, i, calls, slot, prior_slot,
    summary_ret,
    \* create_quiz_from_text
    qpc, source_content, num_questions, quiz_ret,
    \* the web application: the cookie session of every browser, the request
    \* each browser has in flight, and two records of the history of the
    \* summary file: the write that completed last and the read made last
    session, req, last_write, last_read,
    \* the temporary text files of the upload folder: how many were ever
    \* created, those that exist with what they hold, and for every browser
    \* what became of its latest upload
    uploads, temp_files, runs

chunkVars == <<text, max_chunk_size, overlap, start, chunks, spans, cpc>>
invokerVars == <<invoker, user_query, attempt, response, events, ipc, iresult>>
summaryVars ==
    <<spc, text_to_summarize, api_key, segment_summaries, i, calls, slot, prior_slot, summary_ret>>
quizVars == <<qpc, source_content, num_questions, quiz_ret>>
appVars == <<session, req, last_write, last_read, uploads, temp_files, runs>>
vars == <<chunkVars, invokerVars, summaryVars, quizVars, appVars>>

(* ============================ chunk_text =============================== *)
\* line 73: the candidate end of the chunk that begins at start
CandidateEnd(t, st, size) == Min(st + size, Len(t))

\* a search for the last '.' only
BreakPointPeriodOnly(t, st, end) == rfind(t, ".", st, end)

\* lines 77-79: the last '.' or newline of text[start:end]
BreakPoint(t, st, end) == Max(rfind(t, ".", st, end), rfind(t, "\n", st, end))

\* lines 73-83: where the chunk that begins at start ends
ChunkEnd(t, st, size, ov) ==
    LET end == CandidateEnd(t, st, size)
    IN  IF end < Len(t) /\ BreakPoint(t, st, end) > st + size - ov
        THEN BreakPoint(t, st, end) + 1
        ELSE end

\* a next start that steps back by the overlap after the last chunk as well
NextStartAlwaysBack(t, end, ov) == end - ov

\* line 90: where the next chunk begins
NextStart(t, end, ov) == IF end < Len(t) THEN end - ov ELSE Len(t)

\* lines 70-71: entry to chunk_text
ChunkEntry(t, size, ov) ==
    /\ text' = t
    /\ max_chunk_size' = size
    /\ overlap' = ov
    /\ start' = 0
    /\ chunks' = <<>>
    /\ spans' = <<>>
    /\ cpc' = "loop"

\* lines 72-90: one iteration of the while loop
ChunkStep ==
    /\ cpc = "loop"
    /\ start < Len(text)
    /\ Len(spans) < MaxIter
    /\ LET end == ChunkEnd(text, start, max_chunk_size, overlap)
           chunk == strip(Slice(text, start, end))
       IN  /\ chunks' = IF chunk # <<>> THEN Append(chunks, chunk) ELSE chunks
           /\ spans' = Append(spans, <<start, end>>)
           /\ start' = NextStart(text, end, overlap)
    /\ UNCHANGED <<text, max_chunk_size, overlap, cpc>>
    /\ UNCHANGED <<invokerVars, summaryVars, quizVars>>
    /\ UNCHANGED appVars

\* lines 72 and 92: the loop test fails and chunks is returned
ChunkReturn ==
    /\ cpc = "loop"
    /\ ~(start < Len(text))
    /\ cpc' = "done"
    /\ UNCHANGED <<text, max_chunk_size, overlap, start, chunks, spans>>
    /\ UNCHANGED <<invokerVars, summaryVars, quizVars>>
    /\ UNCHANGED appVars

(* ====================== values shared by callers ======================= *)
\* what a function has handed back: nothing yet, a returned value, or a
\* raised exception (error names its class and message)
NoResult == [kind |-> "none", value |-> <<>>, error |-> ""]
Returned(v) == [kind |-> "return", value |-> v, error |-> ""]
Raised(e) == [kind |-> "raise", value |-> <<>>, error |-> e]

\* the summary output file: absent, or holding a string
NoFile == [exists |-> FALSE, content |-> <<>>]
File(s) == [exists |-> TRUE, content |-> s]

\* what the summary file can hold before a run
PriorSlots == {NoFile, File(<<"o">>)}

ApiKeys == {"", "KEY"}

\* HTTP statuses the endpoint answers with; 0 stands for no answer at all
\* (requests.post raised: connection error, timeout)
HttpStatuses == {200, 400, 429, 500}
NoResponse == 0

\* texts the model can answer a summary request with
Summaries == {<<"x">>, <<"y">>}

\* one question object of an upstream quiz; questionNumber 0 stands for a
\* question the model gave no number, rest for all the other fields; an item
\* with is_object FALSE is a JSON value that is no object
QuestionItems ==
    {[is_object |-> TRUE, questionNumber |-> n, rest |-> r] :
        n \in 0..(MaxQuestions + 1), r \in {"A", "B"}}
    \cup {[is_object |-> FALSE, questionNumber |-> 0, rest |-> "A"]}

RECURSIVE ListsUpTo(_, _)
ListsUpTo(items, n) ==
    IF n = 0 THEN {<<>>}
    ELSE LET shorter == ListsUpTo(items, n - 1)
         IN  shorter \cup {Append(s, c) : s \in {t \in shorter : Len(t) = n - 1}, c \in items}

\* a JSON value as json.loads returns it, seen the way the code looks at it:
\* is it a dict, has it a questions key, is the value under that key a list
\* (or null), and the items of that list
JsonValue(is_dict, has_questions, questions_type, qs) ==
    [is_dict |-> is_dict, has_questions |-> has_questions,
     questions_type |-> questions_type, questions |-> qs]

\* {"questions": qs}
Quiz(qs) == JsonValue(TRUE, TRUE, "list", qs)
\* {"questions": []}
EmptyQuiz == Quiz(<<>>)
\* {"questions": null}
NullQuiz == JsonValue(TRUE, TRUE, "null", <<>>)
\* {}, or any object without a questions key
NoQuestionsObject == JsonValue(TRUE, FALSE, "list", <<>>)
\* a JSON array, number, string, ...
NonObject == JsonValue(FALSE, FALSE, "list", <<>>)

ParsedValues ==
    {NonObject, NoQuestionsObject, NullQuiz}
    \cup {Quiz(qs) : qs \in ListsUpTo(QuestionItems, MaxQuestions)}

\* the text part of the first candidate: absent ("missing"), no JSON at all
\* ("invalid"), or JSON that parses to a value
QuizPayloads ==
    {[json |-> j, parsed |-> NonObject] : j \in {"missing", "invalid"}}
    \cup {[json |-> "valid", parsed |-> v] : v \in ParsedValues}

NoPayload == [json |-> "missing", parsed |-> NonObject]

\* an answer of the endpoint: its status, the shape of its JSON body, and the
\* text part of the first candidate (prose for the plain invoker, a JSON
\* payload for the structured one)
Response(status, body, t, payload) ==
    [status |-> status, body |-> body, text |-> t, payload |-> payload]

NoAnswer == Response(NoResponse, "none", <<>>, NoPayload)

\* the shapes of a body that arrives with status 200: no JSON at all; an
\* envelope without candidates or with an empty list of them, either without
\* a promptFeedback ("no_candidates") or with one that names a block reason
\* ("blocked"); a first candidate that has no content ("no_content"); a
\* first candidate with content and parts ("candidates")
Bodies200 == {"not_json", "no_candidates", "blocked", "no_content", "candidates"}

\* the envelope has no candidate output
NoCandidates(body) == body \in {"no_candidates", "blocked"}

\* what requests.post hands the plain invoker
PlainResponses ==
    {Response(NoResponse, "none", <<>>, NoPayload)}
    \cup {Response(s, "error", <<>>, NoPayload) : s \in HttpStatuses \ {200}}
    \cup {Response(200, b, <<>>, NoPayload) : b \in Bodies200 \ {"candidates"}}
    \cup {Response(200, "candidates", t, NoPayload) : t \in Summaries}

\* what requests.post hands the structured invoker
StructuredResponses ==
    {Response(NoResponse, "none", <<>>, NoPayload)}
    \cup {Response(s, "error", <<>>, NoPayload) : s \in HttpStatuses \ {200}}
    \cup {Response(200, b, <<>>, NoPayload) : b \in Bodies200 \ {"candidates"}}
    \cup {Response(200, "candidates", <<>>, p) : p \in QuizPayloads}

PostEvent(n, status) == [ev |-> "post", n |-> n, status |-> status]
SleepEvent(seconds) == [ev |-> "sleep", n |-> seconds, status |-> 0]

\* a caller enters an invoker with its query
InvokerEntry(name, query) ==
    /\ invoker' = name
    /\ user_query' = query
    /\ attempt' = 0
    /\ response' = NoAnswer
    /\ events' = <<>>
    /\ ipc' = "post"
    /\ iresult' = NoResult

\* response.raise_for_status(): HTTPError for every 4xx and 5xx status
RaisesHTTPError(status) == status >= 400

(* ==================== _call_gemini_api (summarizer.py) ================= *)
\* line 53, second conjunct: the statuses that are retried
Retryable(status) == status = 429 \/ status >= 500

\* line 53: an HTTPError on this attempt is followed by another attempt
ShouldRetry(att, status) == att < max_retries - 1 /\ Retryable(status)

\* a backoff that counts attempts from 1
SleepTimeFromOne(att) == Pow2(att + 1)

\* line 54
SleepTime(att) == Pow2(att)

\* line 45, second argument of get: what stands in for a missing feedback
NoFeedback == "No detailed feedback."

\* line 45: result.get('promptFeedback', ...)
PromptFeedback(body) == IF body = "blocked" THEN "blockReason: SAFETY" ELSE NoFeedback

\* an error for missing candidates that leaves the feedback out
NoCandidatesErrorBare(body) ==
    "Exception: An unexpected error occurred during summary generation: "
    \o "Gemini API returned no candidates or was blocked"

\* line 45, as line 61 wraps it
NoCandidatesError(body) ==
    "Exception: An unexpected error occurred during summary generation: "
    \o "Gemini API returned no candidates or was blocked: " \o PromptFeedback(body)

\* lines 36-61: one pass of the for loop up to its return, raise or sleep
CallGeminiApiAttempt ==
    /\ invoker = "call_gemini_api"
    /\ ipc = "post"
    /\ \E r \in PlainResponses :
        /\ response' = r
        /\ events' = Append(events, PostEvent(attempt, r.status))
        /\ IF r.status = NoResponse
           THEN /\ ipc' = "raised"
                /\ iresult' = Raised("Exception: An unexpected error occurred during summary generation")
           ELSE IF RaisesHTTPError(r.status)
           THEN IF ShouldRetry(attempt, r.status)
                THEN /\ ipc' = "sleep"
                     /\ iresult' = iresult
                ELSE /\ ipc' = "raised"
                     /\ iresult' = Raised("Exception: Failed to generate summary due to API error")
           ELSE IF r.body = "not_json"
           THEN /\ ipc' = "raised"
                /\ iresult' = Raised("Exception: An unexpected error occurred during summary generation")
           ELSE IF NoCandidates(r.body)
           THEN /\ ipc' = "raised"
                /\ iresult' = Raised(NoCandidatesError(r.body))
           ELSE IF r.body = "no_content"
           THEN /\ ipc' = "raised"
                /\ iresult' = Raised("Exception: An unexpected error occurred during summary generation: 'content'")
           ELSE /\ ipc' = "returned"
                /\ iresult' = Returned(r.text)
    /\ UNCHANGED <<invoker, user_query, attempt>>
    /\ UNCHANGED <<chunkVars, summaryVars, quizVars>>
    /\ UNCHANGED appVars

\* lines 54-56, 35 and 63: the backoff sleep, then the next pass of the loop
CallGeminiApiBackoff ==
    /\ invoker = "call_gemini_api"
    /\ ipc = "sleep"
    /\ events' = Append(events, SleepEvent(SleepTime(attempt)))
    /\ attempt' = attempt + 1
    /\ IF attempt + 1 < max_retries
       THEN /\ ipc' = "post"
            /\ iresult' = iresult
       ELSE /\ ipc' = "raised"
            /\ iresult' = Raised("Exception: Failed to generate summary after multiple retries.")
    /\ UNCHANGED <<invoker, user_query, response>>
    /\ UNCHANGED <<chunkVars, summaryVars, quizVars>>
    /\ UNCHANGED appVars

(* ============ _call_gemini_api_structured (quizgenerator.py) =========== *)
\* a retry test that takes every error status for a transient one
RetryableAnyError(status) == status >= 400

\* line 77, second conjunct
RetryableStructured(status) == status = 429 \/ status >= 500

\* line 77
ShouldRetryStructured(att, status) ==
    att < max_retries_structured - 1 /\ RetryableStructured(status)

\* line 78
SleepTimeStructured(att) == Pow2(att)

\* line 54: the text of the first part, '{}' when the part has no text key
JsonString(payload) ==
    IF payload.json = "missing" THEN [json |-> "valid", parsed |-> NoQuestionsObject]
    ELSE payload

\* a parse that hands back whatever json.loads returned
ParseQuizUnchecked(payload) ==
    IF JsonString(payload).json = "invalid" THEN EmptyQuiz ELSE JsonString(payload).parsed

\* lines 57-70: json.loads and the two structure checks
ParseQuiz(payload) ==
    LET json_string == JsonString(payload)
        parsed == json_string.parsed
    IN  IF json_string.json = "invalid" THEN EmptyQuiz
        ELSE IF ~parsed.is_dict THEN EmptyQuiz
        ELSE IF ~parsed.has_questions THEN EmptyQuiz
        ELSE parsed

\* line 73: result.get('promptFeedback', {}).get('blockReason', 'Unknown reason')
BlockReason(body) == IF body = "blocked" THEN "SAFETY" ELSE "Unknown reason"

\* line 74, as line 86 wraps it
InvalidStructureError(body) ==
    "Exception: An unexpected error occurred during API call: "
    \o "API returned an invalid or empty response structure. Blocking reason: "
    \o BlockReason(body)

\* lines 41-86: one pass of the for loop up to its return, raise or sleep
CallGeminiApiStructuredAttempt ==
    /\ invoker = "call_gemini_api_structured"
    /\ ipc = "post"
    /\ \E r \in StructuredResponses :
        /\ response' = r
        /\ events' = Append(events, PostEvent(attempt, r.status))
        /\ IF r.status = NoResponse
           THEN /\ ipc' = "raised"
                /\ iresult' = Raised("Exception: An unexpected error occurred during API call")
           ELSE IF RaisesHTTPError(r.status)
           THEN IF ShouldRetryStructured(attempt, r.status)
                THEN /\ ipc' = "sleep"
                     /\ iresult' = iresult
                ELSE /\ ipc' = "raised"
                     /\ iresult' = Raised("Exception: Failed to generate quiz due to API error")
           ELSE IF r.body = "not_json"
           THEN /\ ipc' = "raised"
                /\ iresult' = Raised("Exception: An unexpected error occurred during API call")
           ELSE IF r.body = "candidates"
           THEN /\ ipc' = "returned"
                /\ iresult' = Returned(ParseQuiz(r.payload))
           ELSE /\ ipc' = "raised"
                /\ iresult' = Raised(InvalidStructureError(r.body))
    /\ UNCHANGED <<invoker, user_query, attempt>>
    /\ UNCHANGED <<chunkVars, summaryVars, quizVars>>
    /\ UNCHANGED appVars

\* lines 78-79, 40 and 88: the backoff sleep, then the next pass of the loop
CallGeminiApiStructuredBackoff ==
    /\ invoker = "call_gemini_api_structured"
    /\ ipc = "sleep"
    /\ events' = Append(events, SleepEvent(SleepTimeStructured(attempt)))
    /\ attempt' = attempt + 1
    /\ IF attempt + 1 < max_retries_structured
       THEN /\ ipc' = "post"
            /\ iresult' = iresult
       ELSE /\ ipc' = "raised"
            /\ iresult' = Raised("Exception: Failed to generate quiz after multiple retries.")
    /\ UNCHANGED <<invoker, user_query, response>>
    /\ UNCHANGED <<chunkVars, summaryVars, quizVars>>
    /\ UNCHANGED appVars

(* ==================== generate_summary (summarizer.py) ================= *)
\* line 128: the user query of a segment call
SegmentQuery(chunk) == <<"Summarize this segment:\n\n---\n\n">> \o chunk

\* line 135: the separator between segment summaries
Separator == <<"\n\n---\n\n">>

\* one logical invoker call, as generate_summary issues it: the stage stands
\* for the system prompt (lines 120-124 or 143-148)
Call(stage, query) ==
    [fn |-> "call_gemini_api", stage |-> stage, query |-> query, result |-> NoResult]

\* the call made last is over and has handed back r
CallOver(log, r) == [log EXCEPT ![Len(log)].result = r]

\* a credential check that lets every key through
MissingKeyNever(key) == FALSE

\* line 109
MissingKey(key) == key = ""

\* a threshold that already chunks a text of exactly CHUNK_SIZE characters
NeedsChunkingInclusive(t) == Len(t) >= CHUNK_SIZE

\* line 114
NeedsChunking(t) == Len(t) > CHUNK_SIZE

\* lines 109-118 and 138-151: entry, up to the first call that takes time
GenerateSummaryEntry ==
    /\ spc = "idle"
    /\ qpc = "idle"
    /\ \E t \in SummaryTexts, key \in ApiKeys :
        /\ text_to_summarize' = t
        /\ api_key' = key
        /\ IF MissingKey(key)
           THEN /\ spc' = "raised"
                /\ summary_ret' = Raised("ValueError: Gemini API Key is required for summarization.")
                /\ UNCHANGED <<calls, chunkVars, invokerVars>>
           ELSE IF NeedsChunking(t)
           THEN /\ spc' = "stage1"
                /\ ChunkEntry(t, CHUNK_SIZE, CHUNK_OVERLAP)
                /\ UNCHANGED <<calls, summary_ret, invokerVars>>
           ELSE /\ spc' = "stage2"
                /\ InvokerEntry("call_gemini_api", t)
                /\ calls' = Append(calls, Call("final", t))
                /\ UNCHANGED <<summary_ret, chunkVars>>
    /\ prior_slot' = slot
    /\ UNCHANGED <<segment_summaries, i, slot, quizVars>>
    /\ UNCHANGED appVars

\* lines 126-131: the loop takes chunk i and calls the invoker on it
SegmentCall ==
    /\ spc = "stage1"
    /\ cpc = "done"
    /\ ipc = "idle"
    /\ i < Len(chunks)
    /\ InvokerEntry("call_gemini_api", SegmentQuery(chunks[i + 1]))
    /\ calls' = Append(calls, Call("segment", SegmentQuery(chunks[i + 1])))
    /\ UNCHANGED <<spc, text_to_summarize, api_key, segment_summaries, i, slot, prior_slot,
                   summary_ret>>
    /\ UNCHANGED <<chunkVars, quizVars>>
    /\ UNCHANGED appVars

\* a handler that replaces the error of the call by one of its own
ReraiseWrapped(r) == Raised("Exception: Summary generation failed")

\* lines 165-167: except Exception as e: raise e
Reraise(r) == r

\* lines 131-132 and 165-167: the segment call is over
SegmentReturn ==
    /\ spc = "stage1"
    /\ ipc \in {"returned", "raised"}
    /\ IF ipc = "returned"
       THEN /\ segment_summaries' = Append(segment_summaries, iresult.value)
            /\ i' = i + 1
            /\ UNCHANGED <<spc, summary_ret>>
       ELSE /\ spc' = "raised"
            /\ summary_ret' = Reraise(iresult)
            /\ UNCHANGED <<segment_summaries, i>>
    /\ ipc' = "idle"
    /\ calls' = CallOver(calls, iresult)
    /\ UNCHANGED <<invoker, user_query, attempt, response, events, iresult>>
    /\ UNCHANGED <<text_to_summarize, api_key, slot, prior_slot>>
    /\ UNCHANGED <<chunkVars, quizVars>>
    /\ UNCHANGED appVars

\* lines 135-136 and 151: the loop is over, the final-stage call is made
FinalCall ==
    /\ spc = "stage1"
    /\ cpc = "done"
    /\ ipc = "idle"
    /\ ~(i < Len(chunks))
    /\ spc' = "stage2"
    /\ InvokerEntry("call_gemini_api", join(Separator, segment_summaries))
    /\ calls' = Append(calls, Call("final", join(Separator, segment_summaries)))
    /\ UNCHANGED <<text_to_summarize, api_key, segment_summaries, i, slot, prior_slot,
                   summary_ret>>
    /\ UNCHANGED <<chunkVars, quizVars>>
    /\ UNCHANGED appVars

\* a file opened for appending: what it held stays in front of the summary
WriteSlotAppend(old, s, outcome) ==
    IF outcome = "written" THEN File(old.content \o s)
    ELSE IF outcome = "write_failed" THEN File(old.content)
    ELSE old

\* lines 155-156: what open(..., 'w') and f.write do to the file. open
\* truncates, so a write that fails after it leaves the file empty
WriteSlot(old, s, outcome) ==
    IF outcome = "written" THEN File(s)
    ELSE IF outcome = "write_failed" THEN File(<<>>)
    ELSE old

WriteOutcomes == {"written", "open_failed", "write_failed"}

\* a save that ignores a failed write and hands the summary back all the same
SaveResultSwallowed(outcome, s) == Returned(s)

\* lines 154-163 and 165-167: the summary is returned when it was written;
\* an exception of open or write becomes an IOError, which line 167 re-raises
SaveResult(outcome, s) ==
    IF outcome = "written" THEN Returned(s)
    ELSE Raised("IOError: Failed to save summary")

\* lines 151-167: the final-stage call is over; the summary is saved and returned
FinalReturn ==
    /\ spc = "stage2"
    /\ ipc \in {"returned", "raised"}
    /\ IF ipc = "returned"
       THEN \E outcome \in WriteOutcomes :
            /\ slot' = WriteSlot(slot, iresult.value, outcome)
            /\ summary_ret' = SaveResult(outcome, iresult.value)
            /\ spc' = IF SaveResult(outcome, iresult.value).kind = "return"
                      THEN "returned" ELSE "raised"
       ELSE /\ spc' = "raised"
            /\ summary_ret' = Reraise(iresult)
            /\ slot' = slot
    /\ ipc' = "idle"
    /\ calls' = CallOver(calls, iresult)
    /\ UNCHANGED <<invoker, user_query, attempt, response, events, iresult>>
    /\ UNCHANGED <<text_to_summarize, api_key, segment_summaries, i, prior_slot>>
    /\ UNCHANGED <<chunkVars, quizVars>>
    /\ UNCHANGED appVars

(* ================ create_quiz_from_text (quizgenerator.py) ============== *)
\* line 153
QuizQuery(content) == <<"Generate a quiz based on the following text:\n\n---\n\n">> \o content

\* a renumbering that counts from 0, as enumerate does
RenumberFromZero(qs) == [k \in 1..Len(qs) |-> [qs[k] EXCEPT !.questionNumber = k - 1]]

\* a renumbering that hands the questions back in reverse order
RenumberReversed(qs) ==
    [k \in 1..Len(qs) |-> [qs[Len(qs) + 1 - k] EXCEPT !.questionNumber = k]]

\* lines 160-161: every question gets its position, counted from 1
Renumber(qs) == [k \in 1..Len(qs) |-> [qs[k] EXCEPT !.questionNumber = k]]

\* line 160: quiz_data.get('questions', [])
QuestionsOf(quiz) == IF quiz.has_questions THEN quiz.questions ELSE <<>>

\* lines 160-161 raise on a quiz_data that has no get method, on a
\* questions value that cannot be enumerated and on an item that takes no
\* item assignment
RenumberRaises(quiz) ==
    \/ ~quiz.is_dict
    \/ quiz.has_questions /\ quiz.questions_type # "list"
    \/ \E k \in 1..Len(QuestionsOf(quiz)) : ~QuestionsOf(quiz)[k].is_object

QuizSources == {<<>>, <<" ">>, <<" ", "\n">>, <<"a">>, <<" ", "a">>}

\* a source check that forgets to strip
BlankSourceEmptyOnly(content) == content = <<>>

\* line 102
BlankSource(content) == strip(content) = <<>>

\* line 105
MissingQuizKey(key) == key = ""

\* lines 102-157: entry, up to the call that takes time
CreateQuizEntry ==
    /\ qpc = "idle"
    /\ spc = "idle"
    /\ \E content \in QuizSources, n \in 1..MaxQuestions, key \in ApiKeys :
        /\ source_content' = content
        /\ num_questions' = n
        /\ api_key' = key
        /\ IF BlankSource(content)
           THEN /\ qpc' = "raised"
                /\ quiz_ret' = Raised("ValueError: Source content for quiz generation is empty.")
                /\ UNCHANGED invokerVars
           ELSE IF MissingQuizKey(key)
           THEN /\ qpc' = "raised"
                /\ quiz_ret' = Raised("ValueError: Gemini API Key is required for quiz generation.")
                /\ UNCHANGED invokerVars
           ELSE /\ qpc' = "calling"
                /\ quiz_ret' = quiz_ret
                /\ InvokerEntry("call_gemini_api_structured", QuizQuery(content))
    /\ UNCHANGED <<spc, text_to_summarize, segment_summaries, i, calls, slot, prior_slot,
                   summary_ret>>
    /\ UNCHANGED chunkVars
    /\ UNCHANGED appVars

\* lines 157-164: the structured call is over; the questions are renumbered
CreateQuizReturn ==
    /\ qpc = "calling"
    /\ ipc \in {"returned", "raised"}
    /\ IF ipc = "raised"
       THEN /\ qpc' = "raised"
            /\ quiz_ret' = iresult
       ELSE IF RenumberRaises(iresult.value)
       THEN /\ qpc' = "raised"
            /\ quiz_ret' = Raised("TypeError")
       ELSE /\ qpc' = "returned"
            /\ quiz_ret' = Returned([iresult.value EXCEPT
                                        !.questions = Renumber(QuestionsOf(iresult.value))])
    /\ ipc' = "idle"
    /\ UNCHANGED <<invoker, user_query, attempt, response, events, iresult>>
    /\ UNCHANGED <<source_content, num_questions>>
    /\ UNCHANGED <<chunkVars, summaryVars>>
    /\ UNCHANGED appVars

(* ========================= the routes (app.py) ========================= *)
\* browsers that use the application at the same time, each with a cookie
\* session of its own; the server answers their requests in threads
Sessions == {"s1", "s2"}

\* final summaries that runs of generate_summary hand back in the
\* application; their lengths differ, as those of two documents do
FinalSummaries == {<<"x">>, <<"y", "y">>}

\* the session holds no 'temp_text_path' key; any other value of the field
\* is the number of the text file the path names
NoPath == 0

\* lines 45-46: a session without an uploaded text and without a key
FreshSession == [temp_text_path |-> NoPath, gemini_api_key |-> ""]

\* texts that the extraction of an uploaded PDF yields
ExtractedTexts == {<<>>, <<"a">>}

\* what became of the latest upload of a browser: its text file, how often
\* generate_summary was entered with its text, and how the run ended
NoRun == [file |-> NoPath, count |-> 0, outcome |-> "none"]

\* no request of the browser is being served
NoRequest == [pc |-> "idle", summary |-> <<>>]

NoWrite == [session |-> "none", summary |-> <<>>]
NoRead == [session |-> "none", text |-> <<>>, writer |-> "none", written |-> <<>>]

\* the variables of generate_summary other than the summary file
summaryOwnVars ==
    <<spc, text_to_summarize, api_key, segment_summaries, i, calls, prior_slot, summary_ret>>

\* summarizer.py line 156 and the close at the end of the with block: the
\* buffered string is written at offset 0 of a file opened without O_APPEND,
\* over whatever the file holds by then
Overwrite(old, s) == s \o SubSeq(old, Len(s) + 1, Len(old))

\* lines 42-47: GET /
Homepage(s) ==
    /\ req[s].pc = "idle"
    /\ session' = [session EXCEPT ![s] = FreshSession]
    /\ UNCHANGED <<req, last_write, last_read, slot, uploads, temp_files, runs>>
    /\ UNCHANGED <<chunkVars, invokerVars, summaryOwnVars, quizVars>>

\* lines 49-103: POST /upload with a PDF whose text is extracted and saved
\* in a new text file, the path of which goes into the session
PdfUpload(s) ==
    /\ req[s].pc = "idle"
    /\ uploads < MaxUploads
    /\ \E extracted_text \in ExtractedTexts :
        temp_files' = [f \in DOMAIN temp_files \cup {uploads + 1} |->
                         IF f = uploads + 1 THEN extracted_text ELSE temp_files[f]]
    /\ uploads' = uploads + 1
    /\ session' = [session EXCEPT ![s].temp_text_path = uploads + 1]
    /\ runs' = [runs EXCEPT ![s] = [file |-> uploads + 1, count |-> 0, outcome |-> "none"]]
    /\ UNCHANGED <<req, last_write, last_read, slot>>
    /\ UNCHANGED <<chunkVars, invokerVars, summaryOwnVars, quizVars>>

\* a lookup of the path that leaves it in the session
KeepTempTextPath(sess) == sess

\* line 124: session.pop('temp_text_path', None)
PopTempTextPath(sess) == [sess EXCEPT !.temp_text_path = NoPath]

\* lines 127-133: the text of the file the path names, "" when there is no
\* such file
ReadTempFile(files, path) == IF path \in DOMAIN files THEN files[path] ELSE <<>>

\* line 133: os.remove(temp_file_path)
RemoveTempFile(files, path) == [f \in DOMAIN files \ {path} |-> files[f]]

\* lines 105-145: POST /apikey-entry, up to the call of generate_summary.
\* Without a path in the session the browser is sent to the upload (line
\* 112) and without a key the form is shown again (line 118), both without
\* a change; a text file that is gone or empty sends the browser back to
\* the upload (line 137)
ApikeyEntry(s) ==
    /\ req[s].pc = "idle"
    /\ session[s].temp_text_path # NoPath
    /\ \E key \in ApiKeys :
        IF key = ""
        THEN UNCHANGED <<session, req, temp_files, runs>>
        ELSE LET temp_file_path == session[s].temp_text_path
                 extracted_text == ReadTempFile(temp_files, temp_file_path)
             IN  /\ session' = [session EXCEPT ![s] =
                                   PopTempTextPath([session[s] EXCEPT !.gemini_api_key = key])]
                 /\ temp_files' = RemoveTempFile(temp_files, temp_file_path)
                 /\ IF extracted_text = <<>>
                    THEN UNCHANGED <<req, runs>>
                    ELSE /\ req' = [req EXCEPT ![s] =
                                       [pc |-> "generate_summary", summary |-> <<>>]]
                         /\ runs' = [runs EXCEPT ![s].count = @ + 1,
                                                 ![s].outcome = "running"]
    /\ UNCHANGED <<last_write, last_read, slot, uploads>>
    /\ UNCHANGED <<chunkVars, invokerVars, summaryOwnVars, quizVars>>

\* summarizer.py lines 109-151 as the route sees them: the calls of the run
\* end in a final summary, or one of them raises and lines 150-153 of app.py
\* show the error
SummaryCalls(s) ==
    /\ req[s].pc = "generate_summary"
    /\ \/ /\ req' = [req EXCEPT ![s] = NoRequest]
          /\ runs' = [runs EXCEPT ![s].outcome = "failed"]
       \/ /\ \E r \in FinalSummaries :
                req' = [req EXCEPT ![s] = [pc |-> "open", summary |-> r]]
          /\ runs' = runs
    /\ UNCHANGED <<session, last_write, last_read, slot, uploads, temp_files>>
    /\ UNCHANGED <<chunkVars, invokerVars, summaryOwnVars, quizVars>>

\* summarizer.py line 155: open(output_filepath, 'w') truncates the file, or
\* fails and leaves it alone (the IOError ends the request)
OpenSlot(s) ==
    /\ req[s].pc = "open"
    /\ \/ /\ slot' = File(<<>>)
          /\ req' = [req EXCEPT ![s].pc = "write"]
          /\ runs' = runs
       \/ /\ slot' = slot
          /\ req' = [req EXCEPT ![s] = NoRequest]
          /\ runs' = [runs EXCEPT ![s].outcome = "failed"]
    /\ UNCHANGED <<session, last_write, last_read, uploads, temp_files>>
    /\ UNCHANGED <<chunkVars, invokerVars, summaryOwnVars, quizVars>>

\* summarizer.py lines 156-163 and app.py line 148: the summary reaches the
\* file when the with block closes it, or the write fails
WriteAndClose(s) ==
    /\ req[s].pc = "write"
    /\ \/ /\ slot' = File(Overwrite(slot.content, req[s].summary))
          /\ last_write' = [session |-> s, summary |-> req[s].summary]
          /\ runs' = [runs EXCEPT ![s].outcome = "done"]
       \/ /\ slot' = slot
          /\ last_write' = last_write
          /\ runs' = [runs EXCEPT ![s].outcome = "failed"]
    /\ req' = [req EXCEPT ![s] = NoRequest]
    /\ UNCHANGED <<session, last_read, uploads, temp_files>>
    /\ UNCHANGED <<chunkVars, invokerVars, summaryOwnVars, quizVars>>

\* lines 186-203: POST /generate-quiz reads the summary file with the key
\* of the session; without a key (line 190) or without a file nothing is
\* read. What is read, stripped, is the source of the quiz (an empty one
\* raises at line 201)
GenerateQuiz(s) ==
    /\ req[s].pc = "idle"
    /\ session[s].gemini_api_key # ""
    /\ slot.exists
    /\ last_read' = [session |-> s, text |-> strip(slot.content),
                     writer |-> last_write.session, written |-> last_write.summary]
    /\ UNCHANGED <<session, req, last_write, slot, uploads, temp_files, runs>>
    /\ UNCHANGED <<chunkVars, invokerVars, summaryOwnVars, quizVars>>

(* =========================== specifications ============================ *)
IdleInvoker ==
    /\ invoker = "none"
    /\ user_query = <<>>
    /\ attempt = 0
    /\ response = NoAnswer
    /\ events = <<>>
    /\ ipc = "idle"
    /\ iresult = NoResult

IdleSummary ==
    /\ spc = "idle"
    /\ text_to_summarize = <<>>
    /\ api_key = ""
    /\ segment_summaries = <<>>
    /\ i = 0
    /\ calls = <<>>
    /\ summary_ret = NoResult

IdleQuiz ==
    /\ qpc = "idle"
    /\ source_content = <<>>
    /\ num_questions = 0
    /\ quiz_ret = NoResult

IdleApp ==
    /\ session = [s \in Sessions |-> FreshSession]
    /\ req = [s \in Sessions |-> NoRequest]
    /\ last_write = NoWrite
    /\ last_read = NoRead
    /\ uploads = 0
    /\ temp_files = <<>>
    /\ runs = [s \in Sessions |-> NoRun]

\* chunk_text called on its own, with any text and any parameters
\* max_chunk_size >= 1, 0 <= overlap < max_chunk_size
InitChunk ==
    /\ text \in Texts
    /\ max_chunk_size \in 1..MaxChunk
    /\ overlap \in 0..(max_chunk_size - 1)
    /\ start = 0
    /\ chunks = <<>>
    /\ spans = <<>>
    /\ cpc = "loop"
    /\ IdleInvoker
    /\ IdleSummary
    /\ slot = NoFile
    /\ prior_slot = NoFile
    /\ IdleQuiz
    /\ IdleApp

NextChunk == ChunkStep \/ ChunkReturn

SpecChunk == InitChunk /\ [][NextChunk]_vars

\* nothing has been called yet; the summary file may be left from an
\* earlier run
Init ==
    /\ text = <<>>
    /\ max_chunk_size = CHUNK_SIZE
    /\ overlap = CHUNK_OVERLAP
    /\ start = 0
    /\ chunks = <<>>
    /\ spans = <<>>
    /\ cpc = "idle"
    /\ IdleInvoker
    /\ IdleSummary
    /\ slot \in PriorSlots
    /\ prior_slot = slot
    /\ IdleQuiz
    /\ IdleApp

Next ==
    \/ GenerateSummaryEntry
    \/ ChunkStep
    \/ ChunkReturn
    \/ SegmentCall
    \/ SegmentReturn
    \/ FinalCall
    \/ FinalReturn
    \/ CreateQuizEntry
    \/ CreateQuizReturn
    \/ CallGeminiApiAttempt
    \/ CallGeminiApiBackoff
    \/ CallGeminiApiStructuredAttempt
    \/ CallGeminiApiStructuredBackoff

Spec == Init /\ [][Next]_vars

\* the application as its browsers drive it: the requests of different
\* sessions are served at the same time, and each step below is one route,
\* or one of the steps of generate_summary that touch the summary file
NextApp ==
    \E s \in Sessions :
        \/ Homepage(s)
        \/ PdfUpload(s)
        \/ ApikeyEntry(s)
        \/ SummaryCalls(s)
        \/ OpenSlot(s)
        \/ WriteAndClose(s)
        \/ GenerateQuiz(s)

SpecApp == Init /\ [][NextApp]_vars

(* ============================== claims ================================= *)
\* the network attempts and the backoff delays of the invocation under way
Posts == SelectSeq(events, LAMBDA e : e.ev = "post")
Sleeps == SelectSeq(events, LAMBDA e : e.ev = "sleep")

\* C1: with overlap < max_chunk_size, every iteration of the chunk_text loop
\* leaves start strictly larger than it found it, so the loop terminates.
C1_StartStrictlyIncreases == [][ChunkStep => start' > start]_vars

\* the spans begin at 0, end at len(text), cover every offset of the text, and
\* with overlap > 0 each span after the first begins before the one before it ends
SpansCover ==
    /\ Len(text) > 0 => /\ Len(spans) > 0
                        /\ spans[1][1] = 0
                        /\ spans[Len(spans)][2] = Len(text)
    /\ \A k \in 0..(Len(text) - 1) : \E j \in 1..Len(spans) : spans[j][1] <= k /\ k < spans[j][2]
    /\ overlap > 0 => \A j \in 2..Len(spans) : spans[j][1] < spans[j - 1][2]

\* C4: for every text and every overlap < max_chunk_size, the raw spans of
\* the successive iterations begin at 0, end at len(text), leave no offset
\* uncovered and overlap their predecessors: a call of chunk_text returns
\* with such spans, and does so before it has made MaxIter iterations.
C4_SpansCoverText ==
    /\ cpc = "done" => SpansCover
    /\ Len(spans) < MaxIter

\* C2: an invocation of either invoker posts at most 3 times; when its first
\* 3 answers are all 429 or 5xx it has raised after the third and posts no more.
C2_AtMostThreeAttempts ==
    /\ Len(Posts) <= 3
    /\ (/\ Len(Posts) >= 3
        /\ \A k \in 1..3 : Posts[k].status = 429 \/ Posts[k].status >= 500)
       => /\ Len(Posts) = 3
          /\ ipc \in {"raised", "idle"}
          /\ iresult.kind = "raise"

C2_Witness ==
    /\ invoker = "call_gemini_api"
    /\ ipc = "raised"
    /\ Len(Posts) = 3
    /\ Posts[1].status = 500 /\ Posts[2].status = 429 /\ Posts[3].status = 500

\* C3: answered 429, 429 and then a success, an invoker returns what the
\* third answer carried, after exactly 3 posts and 2 delays, of 1 s and then
\* 2 s, each between the failed post and the next one.
C3_BackoffSchedule ==
    (/\ Len(Posts) >= 3
     /\ Posts[1].status = 429 /\ Posts[2].status = 429 /\ Posts[3].status = 200
     /\ response.body = "candidates")
    => /\ events = << [ev |-> "post", n |-> 0, status |-> 429],
                      [ev |-> "sleep", n |-> 1, status |-> 0],
                      [ev |-> "post", n |-> 1, status |-> 429],
                      [ev |-> "sleep", n |-> 2, status |-> 0],
                      [ev |-> "post", n |-> 2, status |-> 200] >>
       /\ iresult.kind = "return"
       /\ invoker = "call_gemini_api" => iresult.value = response.text
       /\ (/\ invoker = "call_gemini_api_structured"
           /\ response.payload.json = "valid"
           /\ response.payload.parsed.is_dict
           /\ response.payload.parsed.has_questions)
          => iresult.value = response.payload.parsed

C3_Witness ==
    /\ invoker = "call_gemini_api"
    /\ ipc = "returned"
    /\ Len(Posts) = 3 /\ Len(Sleeps) = 2
    /\ Posts[1].status = 429 /\ Posts[2].status = 429 /\ Posts[3].status = 200
    /\ iresult.value = <<"y">>

\* C5: in every quiz create_quiz_from_text returns, the question at
\* position i (from 0) carries questionNumber i + 1, whatever numbers the
\* upstream call gave.
C5_SequentialNumbers ==
    (qpc = "returned" /\ quiz_ret.value.has_questions)
    => \A k \in 1..Len(quiz_ret.value.questions) :
          quiz_ret.value.questions[k].questionNumber = k

C5_Witness ==
    /\ qpc = "returned"
    /\ Len(quiz_ret.value.questions) = 2
    /\ iresult.value.questions[1].questionNumber = 3
    /\ iresult.value.questions[2].questionNumber = 0

\* C6: a 200 answer with a candidate whose text is no JSON, or JSON that is
\* no object, or an object without a questions key, makes
\* create_quiz_from_text return exactly {questions: []} and raise nothing.
C6_MalformedPayloadDegrades ==
    (/\ invoker = "call_gemini_api_structured"
     /\ response.status = 200
     /\ response.body = "candidates"
     /\ \/ response.payload.json = "invalid"
        \/ /\ response.payload.json = "valid"
           /\ ~response.payload.parsed.is_dict \/ ~response.payload.parsed.has_questions)
    => /\ iresult = Returned(Quiz(<<>>))
       /\ qpc \in {"calling", "returned"}
       /\ qpc = "calling" => ipc = "returned"
       /\ qpc = "returned" => quiz_ret = Returned(Quiz(<<>>))

C6_Witness ==
    /\ qpc = "returned"
    /\ response.status = 200
    /\ response.payload.json = "valid"
    /\ ~response.payload.parsed.is_dict
    /\ quiz_ret = Returned(Quiz(<<>>))

\* C7: with an empty credential generate_summary and create_quiz_from_text
\* raise before any network call: no attempt is made, no invoker is entered
\* and the summary file is as it was.
C7_NoCallWithoutCredential ==
    /\ (spc # "idle" /\ api_key = "")
       => /\ spc = "raised"
          /\ summary_ret.kind = "raise"
          /\ invoker = "none" /\ events = <<>> /\ calls = <<>>
          /\ cpc = "idle"
          /\ slot = prior_slot
    /\ (qpc # "idle" /\ api_key = "")
       => /\ qpc = "raised"
          /\ quiz_ret.kind = "raise"
          /\ invoker = "none" /\ events = <<>>
          /\ slot = prior_slot

C7_Witness ==
    /\ spc = "raised"
    /\ api_key = ""
    /\ Len(text_to_summarize) > CHUNK_SIZE
    /\ slot = File(<<"o">>)

\* C8: for a text of at most CHUNK_SIZE characters and a non-empty
\* credential, generate_summary makes exactly one invoker call, on the whole
\* text as it is, and neither chunks nor summarizes segments.
C8_SingleCallForShortText ==
    (spc # "idle" /\ api_key # "" /\ Len(text_to_summarize) <= CHUNK_SIZE)
    => /\ Len(calls) = 1
       /\ calls[1].stage = "final"
       /\ calls[1].query = text_to_summarize
       /\ user_query = text_to_summarize
       /\ cpc = "idle" /\ spans = <<>> /\ chunks = <<>>
       /\ segment_summaries = <<>>

C8_Witness ==
    /\ spc = "returned"
    /\ api_key # ""
    /\ text_to_summarize = <<" ", "a", " ">>
    /\ calls[1].query = <<" ", "a", " ">>

\* the segment summaries with the separator between them, built from the left
RECURSIVE C9_Joined(_)
C9_Joined(parts) ==
    IF Len(parts) = 0 THEN <<>>
    ELSE IF Len(parts) = 1 THEN parts[1]
    ELSE C9_Joined(SubSeq(parts, 1, Len(parts) - 1)) \o <<"\n\n---\n\n">> \o parts[Len(parts)]

\* C9: for a text longer than CHUNK_SIZE that yields n chunks, call k is the
\* segment call on chunk k and is made only after call k - 1 has returned,
\* the final-stage call is made after all n segment summaries are in, on
\* those summaries joined in chunk order, and a run that returns has made
\* n + 1 calls.
C9_SegmentsThenFinal ==
    (spc # "idle" /\ api_key # "" /\ Len(text_to_summarize) > CHUNK_SIZE)
    => /\ cpc # "done" => calls = <<>>
       /\ cpc = "done" =>
            /\ Len(calls) <= Len(chunks) + 1
            /\ \A k \in 1..Len(calls) :
                 /\ k <= Len(chunks) =>
                      /\ calls[k].stage = "segment"
                      /\ calls[k].query = <<"Summarize this segment:\n\n---\n\n">> \o chunks[k]
                 /\ k < Len(calls) => calls[k].result.kind = "return"
                 /\ k = Len(chunks) + 1 =>
                      /\ calls[k].stage = "final"
                      /\ calls[k].query =
                            C9_Joined([j \in 1..Len(chunks) |-> calls[j].result.value])
            /\ ipc \in {"post", "sleep"} => user_query = calls[Len(calls)].query
            /\ spc = "returned" => Len(calls) = Len(chunks) + 1

C9_Witness ==
    /\ spc = "returned"
    /\ Len(chunks) = 2
    /\ Len(calls) = 3
    /\ calls[1].result.value = <<"x">>
    /\ calls[2].result.value = <<"y">>

\* C10: an HTTP error status other than 429 and 5xx makes the invoker raise
\* at once, on whichever attempt it comes, with no delay and no attempt after
\* it; a delay follows only a 429 or 5xx answer, and every attempt but the
\* first follows a delay.
C10_OnlyTransientStatusesRetried ==
    /\ \A k \in 1..Len(events) :
         (/\ events[k].ev = "post"
          /\ events[k].status >= 400 /\ events[k].status # 429 /\ events[k].status < 500)
         => /\ k = Len(events)
            /\ ipc \in {"raised", "idle"}
            /\ iresult.kind = "raise"
    /\ \A k \in 1..Len(events) :
         events[k].ev = "sleep"
         => /\ k > 1
            /\ events[k - 1].ev = "post"
            /\ events[k - 1].status = 429 \/ events[k - 1].status >= 500
    /\ \A k \in 2..Len(events) : events[k].ev = "post" => events[k - 1].ev = "sleep"

C10_Witness ==
    /\ invoker = "call_gemini_api_structured"
    /\ ipc = "raised"
    /\ Len(events) = 3
    /\ events[1].status = 429
    /\ events[3].ev = "post" /\ events[3].status = 400

\* C11: when the answer an invoker got last has status 200 and no candidate
\* output (no candidates in the envelope, an empty list of them, a blocked
\* prompt, or a first candidate without content), the invoker has raised, the
\* post that got this answer is the last thing it did (no sleep and no post
\* follows, whatever the attempt number), and for an envelope without
\* candidates the error carries the prompt feedback or its stand-in.
C11_NoCandidatesRaiseAtOnce ==
    (response.status = 200 /\ response.body \in {"no_candidates", "blocked", "no_content"})
    => /\ ipc \in {"raised", "idle"}
       /\ iresult.kind = "raise"
       /\ Len(events) = 2 * attempt + 1
       /\ events[Len(events)] = PostEvent(attempt, 200)
       /\ (invoker = "call_gemini_api" /\ response.body = "blocked")
          => iresult.error = "Exception: An unexpected error occurred during summary generation: Gemini API returned no candidates or was blocked: blockReason: SAFETY"
       /\ (invoker = "call_gemini_api" /\ response.body = "no_candidates")
          => iresult.error = "Exception: An unexpected error occurred during summary generation: Gemini API returned no candidates or was blocked: No detailed feedback."
       /\ (invoker = "call_gemini_api_structured" /\ response.body = "blocked")
          => iresult.error = "Exception: An unexpected error occurred during API call: API returned an invalid or empty response structure. Blocking reason: SAFETY"
       /\ (invoker = "call_gemini_api_structured" /\ response.body # "blocked")
          => iresult.error = "Exception: An unexpected error occurred during API call: API returned an invalid or empty response structure. Blocking reason: Unknown reason"

\* a blocked prompt on the third attempt of the plain invoker
C11_Witness ==
    /\ invoker = "call_gemini_api"
    /\ ipc = "raised"
    /\ attempt = 2
    /\ response.status = 200 /\ response.body = "blocked"
    /\ events[1].status = 429 /\ events[3].status = 500

\* C12: when generate_summary has returned, the string it returned is the
\* result of the call it made last, that call is the final-stage call, and the
\* summary file holds exactly that string, nothing of what it held before.
C12_ReturnedIsFinalAndSaved ==
    spc = "returned"
    => /\ summary_ret.kind = "return"
       /\ Len(calls) > 0
       /\ calls[Len(calls)].stage = "final"
       /\ calls[Len(calls)].result = Returned(summary_ret.value)
       /\ \A k \in 1..(Len(calls) - 1) : calls[k].stage = "segment"
       /\ slot = File(summary_ret.value)

\* a chunked run that returned over a file that held something else
C12_Witness ==
    /\ spc = "returned"
    /\ Len(calls) > 1
    /\ prior_slot = File(<<"o">>)
    /\ summary_ret = Returned(<<"x">>)
    /\ slot = File(<<"x">>)

\* the run is over and every call it made handed back a result
C13_EveryCallSucceeded ==
    /\ spc \in {"returned", "raised"}
    /\ Len(calls) > 0
    /\ calls[Len(calls)].stage = "final"
    /\ \A k \in 1..Len(calls) : calls[k].result.kind = "return"

\* C13: when every invoker call of a run succeeded and the summary file does
\* not hold the final summary afterwards (the write failed), generate_summary
\* has raised the IOError of the save and handed back no summary.
C13_FailedWriteRaises ==
    (C13_EveryCallSucceeded /\ slot # File(calls[Len(calls)].result.value))
    => /\ spc = "raised"
       /\ summary_ret.kind = "raise"
       /\ summary_ret.value = <<>>
       /\ summary_ret.error = "IOError: Failed to save summary"

\* a chunked run whose calls all succeeded and whose write failed after open
\* had truncated the file
C13_Witness ==
    /\ C13_EveryCallSucceeded
    /\ Len(calls) > 1
    /\ prior_slot = File(<<"o">>)
    /\ slot = File(<<>>)
    /\ spc = "raised"

\* the text without the whitespace at its two ends
C14_Trimmed(t) ==
    LET solid == {k \in 1..Len(t) : t[k] # " " /\ t[k] # "\n"}
    IN  IF solid = {} THEN <<>>
        ELSE [k \in 1..(Len(t) - Cardinality({j \in 1..Len(t) :
                                   (\A m \in solid : j < m) \/ (\A m \in solid : j > m)}))
                |-> t[k + Cardinality({j \in 1..Len(t) : \A m \in solid : j < m})]]

\* C14 as stated: chunk_text returns no chunk for the empty text, and for
\* every other text shorter than maxSize exactly one chunk, the trimmed text.
C14_ShortTextOneChunk ==
    cpc = "done"
    => /\ text = <<>> => chunks = <<>>
       /\ (0 < Len(text) /\ Len(text) < max_chunk_size) => chunks = <<C14_Trimmed(text)>>

\* C14, amended: for a text shorter than maxSize chunk_text makes at most one
\* iteration and returns no chunk when the text is empty or only whitespace,
\* and otherwise exactly one chunk, the trimmed text.
C14_ShortTextOneChunkUnlessBlank ==
    Len(text) < max_chunk_size
    => /\ Len(spans) <= 1
       /\ cpc = "done"
          => chunks = IF C14_Trimmed(text) = <<>> THEN <<>> ELSE <<C14_Trimmed(text)>>

\* a short text with whitespace at both ends, returned as one trimmed chunk
C14_Witness ==
    /\ cpc = "done"
    /\ text = <<" ", "a", "\n">>
    /\ max_chunk_size = 4
    /\ overlap = 2
    /\ chunks = <<(<<"a">>)>>

\* C15: once create_quiz_from_text has been entered with a source that is
\* empty or holds only whitespace, it has raised the ValueError about the
\* source, with a key or without one, and no invoker was entered and nothing
\* was posted.
C15_BlankSourceRaisesFirst ==
    (qpc # "idle" /\ \A k \in 1..Len(source_content) : source_content[k] \in {" ", "\n"})
    => /\ qpc = "raised"
       /\ quiz_ret = Raised("ValueError: Source content for quiz generation is empty.")
       /\ invoker = "none"
       /\ events = <<>>

\* a whitespace-only source together with a missing key
C15_Witness ==
    /\ qpc = "raised"
    /\ source_content = <<" ", "\n">>
    /\ api_key = ""
    /\ quiz_ret.error = "ValueError: Source content for quiz generation is empty."

\* C16: once a run of generate_summary has written the summary file, the file
\* always holds the final summary of the run that wrote it last, and what
\* /generate-quiz read last is the summary written last before that read,
\* whichever session wrote it.
C16_LastWriterWins ==
    /\ last_write.session # "none" => slot = File(last_write.summary)
    /\ (last_read.session # "none" /\ last_read.writer # "none")
       => last_read.text = last_read.written

\* C17: a quiz that create_quiz_from_text returns for num_questions = n has
\* exactly n questions.
C17_ExactlyNQuestions ==
    qpc = "returned" => Len(quiz_ret.value.questions) = num_questions

\* the offset of the last '.' or newline in the window that begins at st and
\* ends before ce, -1 when it holds none; a negative st counts from the end
\* of the text, as in every Python slice
C18_LastBreak(t, st, ce) ==
    LET lo == IF st >= 0 THEN st ELSE IF st + Len(t) >= 0 THEN st + Len(t) ELSE 0
        found == {p \in lo..(ce - 1) : t[p + 1] = "." \/ t[p + 1] = "\n"}
    IN  IF found = {} THEN -1 ELSE CHOOSE p \in found : \A q \in found : q <= p

\* C18: every iteration made so far whose candidate end start + maxSize lies
\* before the end of the text ended its span right after the last '.' or
\* newline of its window when that break lies beyond
\* start + maxSize - overlap, and at start + maxSize otherwise; no span is
\* longer than maxSize.
C18_SnapRule ==
    \A k \in 1..Len(spans) :
        LET st == spans[k][1]
            end == spans[k][2]
            bp == C18_LastBreak(text, st, st + max_chunk_size)
        IN  /\ end - st <= max_chunk_size
            /\ st + max_chunk_size < Len(text)
               => end = IF bp > st + max_chunk_size - overlap
                        THEN bp + 1 ELSE st + max_chunk_size

\* an iteration whose span was cut short, right after a newline
C18_Witness ==
    \E k \in 1..Len(spans) :
        /\ spans[k][1] + max_chunk_size < Len(text)
        /\ spans[k][2] < spans[k][1] + max_chunk_size
        /\ text[spans[k][2]] = "\n"

\* the spans of the iterations that emitted a chunk, in the order of the output
C19_Emitted ==
    SelectSeq(spans, LAMBDA sp : C14_Trimmed(Slice(text, sp[1], sp[2])) # <<>>)

\* C19: at every iteration the chunks emitted so far are those of the
\* iterations whose span does not trim to empty, one each and in that order
\* (an iteration whose span trims to empty emits nothing); every chunk is
\* its span trimmed, so it is non-empty, begins and ends with a character
\* that is no whitespace and is at most maxSize long; and in the list that
\* chunk_text returns each chunk begins at a larger offset than the one
\* before it.
C19_ChunksWellFormedInOrder ==
    /\ Len(chunks) = Len(C19_Emitted)
    /\ \A k \in 1..Len(chunks) :
          /\ chunks[k] # <<>>
          /\ chunks[k][1] \notin {" ", "\n"}
          /\ chunks[k][Len(chunks[k])] \notin {" ", "\n"}
          /\ Len(chunks[k]) <= max_chunk_size
          /\ chunks[k] = C14_Trimmed(Slice(text, C19_Emitted[k][1], C19_Emitted[k][2]))
    /\ cpc = "done"
       => \A k \in 1..(Len(C19_Emitted) - 1) : C19_Emitted[k][1] < C19_Emitted[k + 1][1]

\* a returned list of two chunks, the first one trimmed, with an iteration
\* between them that emitted nothing
C19_Witness ==
    /\ cpc = "done"
    /\ Len(chunks) = 2
    /\ Len(spans) = 3
    /\ Len(chunks[1]) < spans[1][2] - spans[1][1]
    /\ C14_Trimmed(Slice(text, spans[2][1], spans[2][2])) = <<>>

\* C20: a quiz that create_quiz_from_text returns has as many questions as
\* the parsed payload of the upstream answer, in the same order, and every
\* question agrees with the upstream one in everything but questionNumber.
C20_OnlyNumbersChange ==
    (/\ qpc = "returned"
     /\ response.payload.json = "valid"
     /\ response.payload.parsed.is_dict
     /\ response.payload.parsed.has_questions)
    => LET upstream == response.payload.parsed.questions
           returned == quiz_ret.value.questions
       IN  /\ Len(returned) = Len(upstream)
           /\ \A k \in 1..Len(upstream) :
                 /\ returned[k].rest = upstream[k].rest
                 /\ returned[k].is_object = upstream[k].is_object
                 /\ [returned[k] EXCEPT !.questionNumber = 0]
                    = [upstream[k] EXCEPT !.questionNumber = 0]
           /\ [quiz_ret.value EXCEPT !.questions = <<>>]
              = [response.payload.parsed EXCEPT !.questions = <<>>]

\* two questions with different contents and upstream numbers out of order
C20_Witness ==
    /\ qpc = "returned"
    /\ response.payload.json = "valid"
    /\ Len(response.payload.parsed.questions) = 2
    /\ response.payload.parsed.questions[1].rest = "B"
    /\ response.payload.parsed.questions[1].questionNumber = 2
    /\ response.payload.parsed.questions[2].rest = "A"
    /\ response.payload.parsed.questions[2].questionNumber = 1
    /\ quiz_ret.value.questions[1].rest = "B"

\* C21: a call of a run of generate_summary that raised is the last call
\* of the run, whether a segment call or the final-stage call: the run has
\* raised the very error of that call, no invoker is running or was entered
\* after it, and the summary file is as it was before the run. The file is
\* also untouched while the error is still on its way to generate_summary.
C21_FailedCallEndsRun ==
    /\ \A k \in 1..Len(calls) :
          calls[k].result.kind = "raise"
          => /\ k = Len(calls)
             /\ spc = "raised"
             /\ summary_ret = calls[k].result
             /\ summary_ret = iresult
             /\ ipc = "idle"
             /\ slot = prior_slot
    /\ (spc \in {"stage1", "stage2"} /\ ipc = "raised") => slot = prior_slot

\* the first of several segment calls raised, over a file left by an
\* earlier run
C21_Witness ==
    /\ spc = "raised"
    /\ Len(chunks) >= 2
    /\ Len(calls) = 1
    /\ calls[1].stage = "segment"
    /\ calls[1].result.kind = "raise"
    /\ prior_slot = File(<<"o">>)
    /\ slot = File(<<"o">>)

\* C22: generate_summary is entered at most once with the text of an upload.
\* While the summarization that a POST to /apikey-entry started is under
\* way, and after it has ended, well or with an error, until the browser
\* uploads again, the session holds no temp text path and the text file of
\* the upload is deleted; so the route finds no path (line 110) and sends
\* every further request to the upload.
C22_UploadConsumedOnce ==
    \A s \in Sessions :
        /\ runs[s].count <= 1
        /\ (req[s].pc \in {"generate_summary", "open", "write"}) = (runs[s].outcome = "running")
        /\ runs[s].outcome \in {"running", "failed", "done"}
           => /\ runs[s].count = 1
              /\ session[s].temp_text_path = NoPath
              /\ runs[s].file \notin DOMAIN temp_files

\* the summarization of a browser's only upload has failed
C22_Witness ==
    /\ runs["s1"] = [file |-> 1, count |-> 1, outcome |-> "failed"]
    /\ req["s1"].pc = "idle"
    /\ session["s1"] = [temp_text_path |-> NoPath, gemini_api_key |-> "KEY"]
    /\ 1 \notin DOMAIN temp_files

====
